---------------------------- MODULE Spec2Model ----------------------------
(***************************************************************************)
(* Model of certificados.py: a mail-merge utility that scans a .docx       *)
(* template for {{PLACEHOLDER}} labels, matches them against spreadsheet   *)
(* columns by a canonical (accent-stripped, upper-case) form, renders one  *)
(* document per row and packs the results into a ZIP archive, optionally   *)
(* converting each document to PDF through an external converter.          *)
(*                                                                         *)
(* A Python str is a sequence of characters; a character is a TLA+ string  *)
(* naming one code point ("a", " ", "?", or a name such as "a_acute" for   *)
(* U+00E1, "acute" for U+00B4, "comb" for U+0301, "nl" for U+000A, "soh"   *)
(* for U+0001 and "del" for U+007F).                                       *)
(***************************************************************************)
EXTENDS Integers, Sequences, FiniteSets, TLC

(***************************************************************************)
(* Bounds of the model.                                                    *)
(***************************************************************************)
MaxLen == 3

RepBig == 70

(***************************************************************************)
(* State.                                                                  *)
(***************************************************************************)
VARIABLES
    tpc,      \* position in the text-utility run
    label,    \* the label given to normalize_key
    fname,    \* the candidate file name given to sanitize_filename
    nk1,      \* normalize_key(label)
    nk2,      \* normalize_key(nk1)
    sf        \* sanitize_filename(fname)

VARIABLES
    epc,                \* "uploaded", "extracted", "raised", "built"
    tpl,                \* the uploaded template
    placeholders_norm,  \* the set extract_placeholders_full returned
    norm_to_original,   \* the mapping extract_placeholders_full returned
    row,                \* the row given to build_context_for_render
    defaults_input,     \* the defaults given to build_context_for_render
    context             \* the context build_context_for_render returned

VARIABLES
    df,                   \* the data frame read from the spreadsheet
    nombre_col_original,  \* the header chosen to name the files
    dpc,                  \* DOCX action: "idle", "ready", "looping", "done", "raised"
    di,                   \* rows the DOCX loop has completed
    memory_zip            \* the entries written to the DOCX archive

VARIABLES
    env,          \* which converters the environment holds
    files,        \* the files of the temporary directory: path -> content
    cpc,          \* try_docx_to_pdf: "idle", "docx2pdf", "soffice", "returned"
    input_docx,   \* its first argument
    output_pdf,   \* its second argument
    cret,         \* its return value
    d2p,          \* how its docx2pdf attempt ended
    ncalls        \* how often it invoked each converter

VARIABLES
    ppc,          \* PDF action: "idle", "ready", "rendering", "converting",
                  \* "done", "raised"
    pi,           \* rows the current loop of the PDF action has completed
    docx_paths,   \* the (base name, path) pairs of the rendered documents
    oks,          \* the value try_docx_to_pdf returned for each of them
    pdf_paths,    \* the paths kept for the archive
    pdf_zip,      \* the entries written to the PDF archive
    shown         \* what the action showed: "none", "error", "download"

textVars == <<tpc, label, fname, nk1, nk2, sf>>

frameVars == <<df, nombre_col_original>>

docxVars == <<dpc, di, memory_zip>>

convVars == <<env, files, cpc, input_docx, output_pdf, cret, d2p, ncalls>>

pdfVars == <<ppc, pi, docx_paths, oks, pdf_paths, pdf_zip, shown>>

extractVars ==
    <<epc, tpl, placeholders_norm, norm_to_original, row, defaults_input,
      context>>

vars == <<textVars, extractVars, frameVars, docxVars, convVars, pdfVars>>

(***************************************************************************)
(* Characters.                                                             *)
(***************************************************************************)

\* str.isspace(), which str.strip() and the pattern \s use on a str
SpaceChars == {" ", "nl", "tab", "nbsp"}

IsSpace(c) == c \in SpaceChars

\* the characters the class [<>:"/\\|?*\x00-\x1F] matches
Reserved == {"<", ">", ":", "dquote", "/", "backslash", "|", "?", "*"}

IsC0Control(c) == c \in {"soh", "nl", "tab"}

IsIllegal(c) == c \in Reserved \/ IsC0Control(c)

\* Unicode general category Cc: U+0000..U+001F and U+007F..U+009F
IsControl(c) == IsC0Control(c) \/ c = "del"

\* unicodedata.normalize("NFKD", c) for one character
NFKD(c) ==
    CASE c = "a_acute" -> <<"a", "comb">>
      [] c = "acute"   -> <<" ", "comb">>
      [] c = "nbsp"    -> <<" ">>
      [] OTHER         -> <<c>>

\* unicodedata.combining(c) != 0
Combining(c) == c = "comb"

UpperTable ==
    [a |-> "A", b |-> "B", c |-> "C", d |-> "D", e |-> "E", m |-> "M",
     n |-> "N", o |-> "O", t |-> "T", u |-> "U"]

\* str.upper() for one character
Upper(c) == IF c \in DOMAIN UpperTable THEN UpperTable[c] ELSE c

(***************************************************************************)
(* Generic helpers on sequences.                                           *)
(***************************************************************************)
RECURSIVE Flatten(_)
Flatten(ss) == IF ss = <<>> THEN <<>> ELSE Head(ss) \o Flatten(Tail(ss))

RECURSIVE Repeat(_, _)
Repeat(s, k) == IF k = 0 THEN <<>> ELSE s \o Repeat(s, k - 1)

Prefix(s, k) == IF Len(s) <= k THEN s ELSE SubSeq(s, 1, k)

SeqsUpTo(S, k) == UNION {[1..m -> S] : m \in 0..k}

Range(s) == {s[i] : i \in DOMAIN s}

(***************************************************************************)
(* str methods and re.sub as the utilities use them.                       *)
(***************************************************************************)
SetMin(S) == CHOOSE x \in S : \A y \in S : x <= y

SetMax(S) == CHOOSE x \in S : \A y \in S : x >= y

\* str.strip(chars): the positions of s holding a character that is kept
KeptAt(s, chars) == {i \in DOMAIN s : s[i] \notin chars}

LStrip(s, chars) ==
    IF KeptAt(s, chars) = {} THEN <<>>
    ELSE SubSeq(s, SetMin(KeptAt(s, chars)), Len(s))

RStrip(s, chars) ==
    IF KeptAt(s, chars) = {} THEN <<>>
    ELSE SubSeq(s, 1, SetMax(KeptAt(s, chars)))

\* s.strip()
Strip(s) == RStrip(LStrip(s, SpaceChars), SpaceChars)

\* s.strip(".")
StripDots(s) == RStrip(LStrip(s, {"."}), {"."})

\* s.replace("\n", " ")
ReplaceNewlines(s) == [i \in DOMAIN s |-> IF s[i] = "nl" THEN " " ELSE s[i]]

\* re.sub(r"\s+", " ", s): every maximal run of whitespace becomes one space
RECURSIVE CollapseSpaces(_)
CollapseSpaces(s) ==
    IF s = <<>> THEN <<>>
    ELSE IF IsSpace(Head(s))
         THEN <<" ">> \o CollapseSpaces(LStrip(s, SpaceChars))
         ELSE <<Head(s)>> \o CollapseSpaces(Tail(s))

(***************************************************************************)
(* strip_accents_upper, normalize_key, sanitize_filename.                  *)
(***************************************************************************)
NotCombining(c) == ~Combining(c)

strip_accents_upper(s) ==
    LET decomposed == Flatten([i \in DOMAIN s |-> NFKD(s[i])])
        kept       == SelectSeq(decomposed, NotCombining)
    IN  [i \in DOMAIN kept |-> Upper(kept[i])]

normalize_key(s) ==
    strip_accents_upper(CollapseSpaces(ReplaceNewlines(Strip(s))))

Documento == <<"d", "o", "c", "u", "m", "e", "n", "t", "o">>

NameLimit == 200

\* sanitize_filename without the fallback name for an empty result
sanitize_filename_nofallback(name) ==
    LET replaced == [i \in DOMAIN name |->
                        IF IsIllegal(name[i]) THEN "_" ELSE name[i]]
    IN  Prefix(StripDots(Strip(replaced)), NameLimit)

sanitize_filename(name) ==
    LET replaced == [i \in DOMAIN name |->
                        IF IsIllegal(name[i]) THEN "_" ELSE name[i]]
        stripped == StripDots(Strip(replaced))
    IN  Prefix(IF stripped = <<>> THEN Documento ELSE stripped, NameLimit)

(***************************************************************************)
(* The text utilities applied to an input string.                          *)
(***************************************************************************)
TextAlphabet ==
    {"a", "A", "a_acute", "acute", " ", "nl", ".", "?", "soh", "del"}

\* a label is a short string; a file name is one, or one repeated past NameLimit
TextInit ==
    /\ tpc = "input"
    /\ \E seed \in SeqsUpTo(TextAlphabet, MaxLen), rep \in {1, RepBig} :
           /\ label = seed
           /\ fname = Repeat(seed, rep)
    /\ nk1 = <<>>
    /\ nk2 = <<>>
    /\ sf = <<>>

Normalize ==
    /\ tpc = "input"
    /\ nk1' = normalize_key(label)
    /\ tpc' = "normalized"
    /\ UNCHANGED <<label, fname, nk2, sf, extractVars, frameVars, docxVars, convVars, pdfVars>>

Renormalize ==
    /\ tpc = "normalized"
    /\ nk2' = normalize_key(nk1)
    /\ tpc' = "renormalized"
    /\ UNCHANGED <<label, fname, nk1, sf, extractVars, frameVars, docxVars, convVars, pdfVars>>

Sanitize ==
    /\ tpc = "renormalized"
    /\ sf' = sanitize_filename(fname)
    /\ tpc' = "sanitized"
    /\ UNCHANGED <<label, fname, nk1, nk2, extractVars, frameVars, docxVars, convVars, pdfVars>>

(***************************************************************************)
(* Claims about the text utilities.                                        *)
(***************************************************************************)
NoEdgeSpace(s) == s = <<>> \/ (~IsSpace(s[1]) /\ ~IsSpace(s[Len(s)]))

NoSpaceRun(s) == \A i \in 1..(Len(s) - 1) : ~(IsSpace(s[i]) /\ IsSpace(s[i + 1]))

\* C4: normalize_key is idempotent, and its result has no leading or trailing
\* whitespace and no run of two or more whitespace characters.
C4_NormalizeIdempotent ==
    tpc \in {"renormalized", "sanitized"} =>
        /\ nk2 = nk1
        /\ NoEdgeSpace(nk1)
        /\ NoSpaceRun(nk1)

\* C5 as stated: sanitize_filename(f) holds no reserved character and no
\* control character, is non-empty, is at most 200 long, and maps "" to
\* "documento".
C5_SanitizeNoControl ==
    tpc = "sanitized" =>
        /\ \A i \in DOMAIN sf : sf[i] \notin Reserved /\ ~IsControl(sf[i])
        /\ sf # <<>>
        /\ Len(sf) <= 200
        /\ (fname = <<>> => sf = Documento)

\* C5 amended: sanitize_filename(f) holds no reserved character and no
\* control character of U+0000..U+001F (U+007F passes through), is non-empty,
\* is at most 200 long, and maps "" to "documento".
C5_SanitizeNoC0Control ==
    tpc = "sanitized" =>
        /\ \A i \in DOMAIN sf : sf[i] \notin Reserved /\ ~IsC0Control(sf[i])
        /\ sf # <<>>
        /\ Len(sf) <= 200
        /\ (fname = <<>> => sf = Documento)

\* a name longer than the limit, made of illegal characters only, was sanitized
C5_Witness ==
    /\ tpc = "sanitized"
    /\ Len(fname) > 200
    /\ \A i \in DOMAIN fname : IsIllegal(fname[i])
    /\ Len(sf) = 200

(***************************************************************************)
(* The template: a .docx is a ZIP archive of markup parts.  A template is  *)
(* modelled by whether its bytes open as a ZIP archive, the archive's name *)
(* list, the parts whose read fails, and for every part the groups that    *)
(* PLACEHOLDER_RE.findall returns on its text, in document order.          *)
(***************************************************************************)
MaxMatches == 2

MainPart == "word/document.xml"

HeaderParts == {"word/header1.xml"}

FooterParts == {"word/footer1.xml"}

OtherParts == {"word/styles.xml"}

PartNames == {MainPart} \cup HeaderParts \cup FooterParts \cup OtherParts

\* the groups the pattern can capture: a lazy run of label characters
Spellings == {<<"a">>, <<"A">>, <<"a_acute">>, <<"b">>}

InjectiveSeqs(S) ==
    {q \in SeqsUpTo(S, Cardinality(S)) :
        \A i, j \in DOMAIN q : i # j => q[i] # q[j]}

RECURSIVE SumLen(_, _)
SumLen(f, D) ==
    IF D = {} THEN 0
    ELSE LET d == CHOOSE x \in D : TRUE IN Len(f[d]) + SumLen(f, D \ {d})

\* the texts of the parts, with at most MaxMatches matches in the template
PartTexts ==
    {f \in [PartNames -> SeqsUpTo(Spellings, MaxMatches)] :
        /\ \A o \in OtherParts : f[o] = <<>>
        /\ SumLen(f, PartNames) <= MaxMatches}

\* lines 49-54: the main part, then the header and footer parts in the
\* order of the archive's name list
Candidates(names) ==
    <<MainPart>> \o
    SelectSeq(names, LAMBDA nm : nm \in HeaderParts \cup FooterParts)

\* dict.setdefault(k, v)
SetDefault(m, k, v) == IF k \in DOMAIN m THEN m ELSE m @@ (k :> v)

\* dict[k] = v
SetItem(m, k, v) == [x \in DOMAIN m \cup {k} |-> IF x = k THEN v ELSE m[x]]

\* lines 59-64 for the matches of one part, from the accumulated result
RECURSIVE ScanMatches(_, _)
ScanMatches(ms, acc) ==
    IF ms = <<>> THEN acc
    ELSE LET original == Strip(Head(ms))
             norm     == normalize_key(original)
         IN  ScanMatches(Tail(ms),
                 [set |-> acc.set \cup {norm},
                  map |-> SetDefault(acc.map, norm, original)])

\* lines 56-64: the loop over the candidate parts; a read that fails raises
RECURSIVE ScanParts(_, _, _)
ScanParts(t, parts, acc) ==
    IF parts = <<>> THEN [raised |-> FALSE, set |-> acc.set, map |-> acc.map]
    ELSE IF Head(parts) \notin Range(t.names)
         THEN ScanParts(t, Tail(parts), acc)
         ELSE IF Head(parts) \in t.unreadable
              THEN [raised |-> TRUE, set |-> {}, map |-> <<>>]
              ELSE ScanParts(t, Tail(parts),
                             ScanMatches(t.text[Head(parts)], acc))

\* the same loop with the binding overwritten by every later spelling
RECURSIVE ScanMatches_overwrite(_, _)
ScanMatches_overwrite(ms, acc) ==
    IF ms = <<>> THEN acc
    ELSE LET original == Strip(Head(ms))
             norm     == normalize_key(original)
         IN  ScanMatches_overwrite(Tail(ms),
                 [set |-> acc.set \cup {norm},
                  map |-> SetItem(acc.map, norm, original)])

RECURSIVE ScanParts_overwrite(_, _, _)
ScanParts_overwrite(t, parts, acc) ==
    IF parts = <<>> THEN [raised |-> FALSE, set |-> acc.set, map |-> acc.map]
    ELSE IF Head(parts) \notin Range(t.names)
         THEN ScanParts_overwrite(t, Tail(parts), acc)
         ELSE IF Head(parts) \in t.unreadable
              THEN [raised |-> TRUE, set |-> {}, map |-> <<>>]
              ELSE ScanParts_overwrite(t, Tail(parts),
                       ScanMatches_overwrite(t.text[Head(parts)], acc))

extract_placeholders_full_overwrite(t) ==
    IF ~t.zip
    THEN [raised |-> TRUE, set |-> {}, map |-> <<>>]
    ELSE ScanParts_overwrite(t, Candidates(t.names), [set |-> {}, map |-> <<>>])

\* lines 40-65: zipfile.ZipFile raises on bytes that are no ZIP archive
extract_placeholders_full(t) ==
    IF ~t.zip
    THEN [raised |-> TRUE, set |-> {}, map |-> <<>>]
    ELSE ScanParts(t, Candidates(t.names), [set |-> {}, map |-> <<>>])

ContextIdle ==
    /\ row = <<>>
    /\ defaults_input = <<>>
    /\ context = <<>>

ExtractInit ==
    /\ epc = "uploaded"
    /\ \/ \E names \in InjectiveSeqs(PartNames), text \in PartTexts,
             bad \in {{}} \cup {{q} : q \in PartNames \ OtherParts} :
               tpl = [zip |-> TRUE, names |-> names, unreadable |-> bad,
                      text |-> text]
       \/ tpl = [zip |-> FALSE, names |-> <<>>, unreadable |-> {},
                 text |-> [q \in PartNames |-> <<>>]]
    /\ placeholders_norm = {}
    /\ norm_to_original = <<>>
    /\ ContextIdle

\* lines 192-193: the template is read and scanned; nothing catches a raise
Extract ==
    /\ epc = "uploaded"
    /\ LET r == extract_placeholders_full(tpl)
       IN  /\ epc' = IF r.raised THEN "raised" ELSE "extracted"
           /\ placeholders_norm' = r.set
           /\ norm_to_original' = r.map
    /\ UNCHANGED <<tpl, row, defaults_input, context>>
    /\ UNCHANGED <<textVars, frameVars, docxVars, convVars, pdfVars>>

(***************************************************************************)
(* build_context_for_render.  A row is the sequence of (label, value)      *)
(* pairs of a pandas Series; the application passes a row of df_norm,      *)
(* whose labels are the normalized column headers (line 213), so two       *)
(* headers with one canonical form give two pairs with the same label.     *)
(***************************************************************************)
MaxCols == 2

\* float("nan"), which is no str: an empty cell before fillna("")
NaN == <<"float_nan">>

Headers == {<<"a">>, <<"A">>, <<"b">>}

CellValues == {<<>>, <<"x">>, NaN}

DefaultKeys == {<<"A">>, <<"B">>}

DefaultValues == {<<>>, <<"y">>}

Dicts(K, V) == UNION {[D -> V] : D \in SUBSET K}

\* lines 131-134: the index {col_norm: value}; a later pair replaces an
\* earlier one with the same normalized label
RECURSIVE RowMap(_, _)
RowMap(r, acc) ==
    IF r = <<>> THEN acc
    ELSE RowMap(Tail(r),
                SetItem(acc, normalize_key(Head(r).name),
                        IF Head(r).val = NaN THEN <<>> ELSE Head(r).val))

\* lines 138-145 for one normalized placeholder
ResolveValue(row_map, defaults_norm, ph_norm) ==
    IF ph_norm \in DOMAIN row_map /\ row_map[ph_norm] # <<>>
    THEN row_map[ph_norm]
    ELSE IF ph_norm \in DOMAIN defaults_norm
         THEN defaults_norm[ph_norm]
         ELSE <<>>

\* line 138: norm_to_original.get(ph_norm, ph_norm)
OriginalOf(n2o, ph_norm) == IF ph_norm \in DOMAIN n2o THEN n2o[ph_norm] ELSE ph_norm

\* lines 120-148; the keys are the stored original spellings
build_context_for_render(r, defaults_norm, phs, n2o) ==
    LET row_map == RowMap(r, <<>>)
        keys    == {OriginalOf(n2o, n) : n \in phs}
    IN  [k \in keys |->
            ResolveValue(row_map, defaults_norm,
                         CHOOSE n \in phs : OriginalOf(n2o, n) = k)]

\* a template whose only part is the main part
ContextInit ==
    /\ epc = "uploaded"
    /\ \E ms \in SeqsUpTo(Spellings, MaxMatches) :
           tpl = [zip |-> TRUE, names |-> <<MainPart>>, unreadable |-> {},
                  text |-> [q \in PartNames |->
                               IF q = MainPart THEN ms ELSE <<>>]]
    /\ placeholders_norm = {}
    /\ norm_to_original = <<>>
    /\ ContextIdle

\* lines 279-284 for one row of a data frame and one set of defaults
BuildContext ==
    /\ epc = "extracted"
    /\ \E hs \in InjectiveSeqs(Headers), d \in Dicts(DefaultKeys, DefaultValues) :
         /\ Len(hs) <= MaxCols
         /\ \E vs \in [DOMAIN hs -> CellValues] :
              /\ row' = [i \in DOMAIN hs |->
                            [name |-> normalize_key(hs[i]), val |-> vs[i]]]
              /\ defaults_input' = d
              /\ context' = build_context_for_render(
                                row', d, placeholders_norm, norm_to_original)
    /\ epc' = "built"
    /\ UNCHANGED <<tpl, placeholders_norm, norm_to_original>>
    /\ UNCHANGED <<textVars, frameVars, docxVars, convVars, pdfVars>>

(***************************************************************************)
(* The data frame (lines 205-213, 259-264) and the DOCX generation loop    *)
(* (lines 271-295).                                                        *)
(***************************************************************************)
MaxRows == 2

\* the header rows of the spreadsheets considered: one column, two columns,
\* and two columns whose headers differ only by case
HeaderLists == { << <<"a">> >>, << <<"a">>, <<"b">> >>, << <<"a">>, <<"A">> >> }

\* cells are text (dtype=str, fillna("")): empty, a name, white space only
FrameValues == {<<>>, <<"x">>, <<" ">>}

Frames ==
    UNION {{[columns |-> hs, rows |-> rs] :
               rs \in SeqsUpTo([DOMAIN hs -> FrameValues], MaxRows)} :
           hs \in HeaderLists}

\* line 213: df_norm.columns
NormColumns(d) == [j \in DOMAIN d.columns |-> normalize_key(d.columns[j])]

\* line 277: df_norm.iloc[i], as (label, value) pairs
RowNorm(d, i) ==
    [j \in DOMAIN d.columns |->
        [name |-> NormColumns(d)[j], val |-> d.rows[i][j]]]

\* Series.get(key, default): the default for a missing label, the value for
\* a label that occurs once, and a Series for a label that occurs more often
SeriesGet(r, key, default) ==
    LET at == {j \in DOMAIN r : r[j].name = key}
    IN  IF at = {} THEN [kind |-> "scalar", val |-> default]
        ELSE IF Cardinality(at) = 1
             THEN [kind |-> "scalar", val |-> r[CHOOSE j \in at : TRUE].val]
             ELSE [kind |-> "series", val |-> <<>>]

Digits == <<"0", "1", "2", "3", "4", "5", "6", "7", "8", "9">>

\* str(n) for a natural number
RECURSIVE Decimal(_)
Decimal(n) ==
    IF n < 10 THEN <<Digits[n + 1]>>
    ELSE Decimal(n \div 10) \o <<Digits[(n % 10) + 1]>>

DocumentoPrefix == Documento \o <<"_">>

DocxSuffix ==
    <<" ", "-", " ", "C", "e", "r", "t", "i", "f", "i", "c", "a", "d", "o",
      ".", "d", "o", "c", "x">>

PdfSuffix ==
    <<" ", "-", " ", "C", "e", "r", "t", "i", "f", "i", "c", "a", "d", "o",
      ".", "p", "d", "f">>

\* lines 289-290 (and 332-333) for the row at 0-based position i: the truth
\* test of a Series raises ValueError
BaseName(d, nombre_col, i) ==
    LET got == SeriesGet(RowNorm(d, i + 1), normalize_key(nombre_col), <<>>)
    IN  IF got.kind = "series"
        THEN [raised |-> TRUE, name |-> <<>>]
        ELSE [raised |-> FALSE,
              name |-> IF got.val # <<>>
                       THEN sanitize_filename(got.val)
                       ELSE DocumentoPrefix \o Decimal(i + 1)]

\* lines 113-118: the rendered bytes are the template's text with the
\* context substituted
render_docx_from_template(t, ctx) == [text |-> t.text, ctx |-> ctx]

\* the templates and defaults the generation actions are run with
FrameTemplates ==
    {[zip |-> TRUE, names |-> <<MainPart>>, unreadable |-> {},
      text |-> [q \in PartNames |-> IF q = MainPart THEN ms ELSE <<>>]] :
        ms \in SeqsUpTo({<<"a">>}, 1)}

FrameDefaults == {<<>>, (<<"B">> :> <<"y">>)}

FrameInit ==
    /\ epc = "uploaded"
    /\ tpl \in FrameTemplates
    /\ placeholders_norm = {}
    /\ norm_to_original = <<>>
    /\ row = <<>>
    /\ defaults_input \in FrameDefaults
    /\ context = <<>>
    /\ df \in Frames
    /\ nombre_col_original \in Range(df.columns)

DocxInit ==
    /\ dpc = "ready"
    /\ di = 0
    /\ memory_zip = <<>>

\* lines 271-274: the button is pressed
DocxButton ==
    /\ epc = "extracted"
    /\ dpc = "ready"
    /\ dpc' = "looping"
    /\ di' = 0
    /\ memory_zip' = <<>>
    /\ UNCHANGED <<textVars, extractVars, frameVars, convVars, pdfVars>>

\* lines 275-293: one iteration of the loop
DocxRow ==
    /\ dpc = "looping"
    /\ di < Len(df.rows)
    /\ row' = RowNorm(df, di + 1)
    /\ context' = build_context_for_render(
                      row', defaults_input, placeholders_norm, norm_to_original)
    /\ LET out_bytes == render_docx_from_template(tpl, context')
           base      == BaseName(df, nombre_col_original, di)
       IN  IF base.raised
           THEN /\ dpc' = "raised"
                /\ UNCHANGED <<di, memory_zip>>
           ELSE /\ memory_zip' =
                       Append(memory_zip,
                              [name |-> base.name \o DocxSuffix,
                               data |-> out_bytes])
                /\ di' = di + 1
                /\ dpc' = dpc
    /\ UNCHANGED <<epc, tpl, placeholders_norm, norm_to_original, defaults_input>>
    /\ UNCHANGED <<textVars, frameVars, convVars, pdfVars>>

\* lines 295-301: the loop is over and the archive is offered
DocxFinish ==
    /\ dpc = "looping"
    /\ di = Len(df.rows)
    /\ dpc' = "done"
    /\ UNCHANGED <<di, memory_zip>>
    /\ UNCHANGED <<textVars, extractVars, frameVars, convVars, pdfVars>>

(***************************************************************************)
(* try_docx_to_pdf (lines 77-111).  A path is the name of a file of the    *)
(* temporary directory; files maps every existing path to its content.     *)
(* The converters are external: what an invocation does is chosen by the   *)
(* environment.                                                            *)
(***************************************************************************)
Environments == [docx2pdf : BOOLEAN, soffice : BOOLEAN]

\* lines 67-75
can_convert_pdf(e) == e.docx2pdf \/ e.soffice

ExtPdf == <<".", "p", "d", "f">>

ExtDocx == <<".", "d", "o", "c", "x">>

\* Path.with_suffix(".pdf"): the text after the last dot is replaced
WithSuffixPdf(path) ==
    LET dots == {i \in DOMAIN path : path[i] = "."}
    IN  IF dots = {} THEN path \o ExtPdf
        ELSE SubSeq(path, 1, SetMax(dots) - 1) \o ExtPdf

\* the PDF a converter makes of a document
PdfOf(doc) == [pdf_of |-> doc]

\* Path.replace(target)
Replace(fs, src, dst) ==
    [q \in (DOMAIN fs \ {src}) \cup {dst} |-> IF q = dst THEN fs[src] ELSE fs[q]]

\* line 88 with True returned whether or not the file exists
Docx2pdfResult_true(fs, out) == TRUE

\* line 88: return output_pdf.exists()
Docx2pdfResult(fs, out) == out \in DOMAIN fs

\* lines 85-86, 89: the import fails
Docx2pdfUnavailable ==
    /\ cpc = "docx2pdf"
    /\ ~env.docx2pdf
    /\ d2p' = "unavailable"
    /\ cpc' = "soffice"
    /\ UNCHANGED <<env, files, input_docx, output_pdf, cret, ncalls>>
    /\ UNCHANGED <<textVars, extractVars, frameVars, docxVars, pdfVars>>

\* lines 87, 89: the conversion raises
Docx2pdfRaises ==
    /\ cpc = "docx2pdf"
    /\ env.docx2pdf
    /\ ncalls' = [ncalls EXCEPT !.docx2pdf = @ + 1]
    /\ d2p' = "raised"
    /\ cpc' = "soffice"
    /\ UNCHANGED <<env, files, input_docx, output_pdf, cret>>
    /\ UNCHANGED <<textVars, extractVars, frameVars, docxVars, pdfVars>>

\* lines 87-88: the conversion returns, having written the PDF or not
Docx2pdfReturns ==
    /\ cpc = "docx2pdf"
    /\ env.docx2pdf
    /\ ncalls' = [ncalls EXCEPT !.docx2pdf = @ + 1]
    /\ \E created \in BOOLEAN :
         /\ files' = IF created
                     THEN SetItem(files, output_pdf, PdfOf(files[input_docx]))
                     ELSE files
         /\ d2p' = IF created THEN "created" ELSE "returned"
    /\ cret' = Docx2pdfResult(files', output_pdf)
    /\ cpc' = "returned"
    /\ UNCHANGED <<env, input_docx, output_pdf>>
    /\ UNCHANGED <<textVars, extractVars, frameVars, docxVars, pdfVars>>

\* lines 93-94, 111: no office suite on the path
SofficeMissing ==
    /\ cpc = "soffice"
    /\ ~env.soffice
    /\ cret' = FALSE
    /\ cpc' = "returned"
    /\ UNCHANGED <<env, files, input_docx, output_pdf, d2p, ncalls>>
    /\ UNCHANGED <<textVars, extractVars, frameVars, docxVars, pdfVars>>

\* lines 101, 108-111: the subprocess fails (check=True raises)
SofficeRaises ==
    /\ cpc = "soffice"
    /\ env.soffice
    /\ ncalls' = [ncalls EXCEPT !.soffice = @ + 1]
    /\ cret' = FALSE
    /\ cpc' = "returned"
    /\ UNCHANGED <<env, files, input_docx, output_pdf, d2p>>
    /\ UNCHANGED <<textVars, extractVars, frameVars, docxVars, pdfVars>>

\* lines 101-107, 111: the subprocess ends normally, having written
\* <input stem>.pdf or not; the file found there is moved to output_pdf
SofficeRuns ==
    /\ cpc = "soffice"
    /\ env.soffice
    /\ ncalls' = [ncalls EXCEPT !.soffice = @ + 1]
    /\ \E created \in BOOLEAN :
         LET gen_file == WithSuffixPdf(input_docx)
             written  == IF created
                         THEN SetItem(files, gen_file, PdfOf(files[input_docx]))
                         ELSE files
         IN  IF gen_file \in DOMAIN written
             THEN /\ files' = IF gen_file # output_pdf
                              THEN Replace(written, gen_file, output_pdf)
                              ELSE written
                  /\ cret' = TRUE
             ELSE /\ files' = written
                  /\ cret' = FALSE
    /\ cpc' = "returned"
    /\ UNCHANGED <<env, input_docx, output_pdf, d2p>>
    /\ UNCHANGED <<textVars, extractVars, frameVars, docxVars, pdfVars>>

\* a call of try_docx_to_pdf on its own: a directory holding the document
\* and any PDFs left there earlier
ConvStems == {<<"p">>, <<"q">>}

BlankDoc == [text |-> <<>>, ctx |-> <<>>]

ConvInit ==
    /\ env \in Environments
    /\ \E i \in ConvStems, o \in ConvStems, old \in SUBSET ConvStems :
         /\ input_docx = i \o ExtDocx
         /\ output_pdf = o \o ExtPdf
         /\ files = [q \in {i \o ExtDocx} \cup {st \o ExtPdf : st \in old} |->
                        IF q = i \o ExtDocx THEN BlankDoc ELSE PdfOf(BlankDoc)]
    /\ cpc = "docx2pdf"
    /\ cret = FALSE
    /\ d2p = "none"
    /\ ncalls = [docx2pdf |-> 0, soffice |-> 0]

(***************************************************************************)
(* The PDF generation action (lines 303-367).                              *)
(***************************************************************************)
PdfHeaderLists == { << <<"a">> >>, << <<"a">>, <<"A">> >> }

PdfFrames == {f \in Frames : f.columns \in PdfHeaderLists}

PdfInit ==
    /\ epc = "uploaded"
    /\ tpl \in {t \in FrameTemplates : t.text[MainPart] # <<>>}
    /\ placeholders_norm = {}
    /\ norm_to_original = <<>>
    /\ row = <<>>
    /\ defaults_input = <<>>
    /\ context = <<>>
    /\ df \in PdfFrames
    /\ nombre_col_original \in Range(df.columns)
    /\ env \in Environments
    /\ files = <<>>
    /\ cpc = "idle"
    /\ input_docx = <<>>
    /\ output_pdf = <<>>
    /\ cret = FALSE
    /\ d2p = "none"
    /\ ncalls = [docx2pdf |-> 0, soffice |-> 0]
    /\ ppc = "ready"
    /\ pi = 0
    /\ docx_paths = <<>>
    /\ oks = <<>>
    /\ pdf_paths = <<>>
    /\ pdf_zip = <<>>
    /\ shown = "none"

\* lines 304-320: the button is enabled only when a converter is found
PdfButton ==
    /\ epc = "extracted"
    /\ ppc = "ready"
    /\ can_convert_pdf(env)
    /\ ppc' = "rendering"
    /\ pi' = 0
    /\ docx_paths' = <<>>
    /\ files' = <<>>
    /\ UNCHANGED <<oks, pdf_paths, pdf_zip, shown>>
    /\ UNCHANGED <<env, cpc, input_docx, output_pdf, cret, d2p, ncalls>>
    /\ UNCHANGED <<textVars, extractVars, frameVars, docxVars>>

\* lines 321-339: one iteration of the rendering loop
PdfRenderRow ==
    /\ ppc = "rendering"
    /\ pi < Len(df.rows)
    /\ row' = RowNorm(df, pi + 1)
    /\ context' = build_context_for_render(
                      row', defaults_input, placeholders_norm, norm_to_original)
    /\ LET base      == BaseName(df, nombre_col_original, pi)
           docx_path == base.name \o DocxSuffix
           doc_bytes == render_docx_from_template(tpl, context')
       IN  IF base.raised
           THEN /\ ppc' = "raised"
                /\ UNCHANGED <<pi, docx_paths, files>>
           ELSE /\ files' = SetItem(files, docx_path, doc_bytes)
                /\ docx_paths' =
                       Append(docx_paths, [base |-> base.name, path |-> docx_path])
                /\ pi' = pi + 1
                /\ ppc' = ppc
    /\ UNCHANGED <<oks, pdf_paths, pdf_zip, shown>>
    /\ UNCHANGED <<env, cpc, input_docx, output_pdf, cret, d2p, ncalls>>
    /\ UNCHANGED <<epc, tpl, placeholders_norm, norm_to_original, defaults_input>>
    /\ UNCHANGED <<textVars, frameVars, docxVars>>

\* lines 341-342: the rendering loop is over
PdfRenderDone ==
    /\ ppc = "rendering"
    /\ pi = Len(df.rows)
    /\ ppc' = "converting"
    /\ pi' = 0
    /\ pdf_paths' = <<>>
    /\ oks' = <<>>
    /\ UNCHANGED <<docx_paths, pdf_zip, shown>>
    /\ UNCHANGED <<textVars, extractVars, frameVars, docxVars, convVars>>

\* lines 343-345: try_docx_to_pdf is called for the next document
PdfConvertCall ==
    /\ ppc = "converting"
    /\ cpc = "idle"
    /\ pi < Len(docx_paths)
    /\ input_docx' = docx_paths[pi + 1].path
    /\ output_pdf' = docx_paths[pi + 1].base \o PdfSuffix
    /\ cpc' = "docx2pdf"
    /\ d2p' = "none"
    /\ ncalls' = [docx2pdf |-> 0, soffice |-> 0]
    /\ UNCHANGED <<env, files, cret>>
    /\ UNCHANGED <<textVars, extractVars, frameVars, docxVars, pdfVars>>

\* line 346 without the test of ok: any PDF found at the path is kept
KeepPdf_exists(ok, fs, pdf_path) == pdf_path \in DOMAIN fs

\* line 346: ok and pdf_path.exists()
KeepPdf(ok, fs, pdf_path) == ok /\ pdf_path \in DOMAIN fs

\* lines 345-347: the call has returned
PdfConvertReturn ==
    /\ ppc = "converting"
    /\ cpc = "returned"
    /\ oks' = Append(oks, cret)
    /\ pdf_paths' = IF KeepPdf(cret, files, output_pdf)
                    THEN Append(pdf_paths, output_pdf)
                    ELSE pdf_paths
    /\ pi' = pi + 1
    /\ cpc' = "idle"
    /\ UNCHANGED <<ppc, docx_paths, pdf_zip, shown>>
    /\ UNCHANGED <<env, files, input_docx, output_pdf, cret, d2p, ncalls>>
    /\ UNCHANGED <<textVars, extractVars, frameVars, docxVars>>

\* lines 349-367: the error message, or the archive and its download
PdfFinish ==
    /\ ppc = "converting"
    /\ cpc = "idle"
    /\ pi = Len(docx_paths)
    /\ IF pdf_paths = <<>>
       THEN /\ shown' = "error"
            /\ pdf_zip' = <<>>
       ELSE /\ pdf_zip' = [k \in DOMAIN pdf_paths |->
                              [name |-> pdf_paths[k], data |-> files[pdf_paths[k]]]]
            /\ shown' = "download"
    /\ files' = <<>>
    /\ ppc' = "done"
    /\ UNCHANGED <<pi, docx_paths, oks, pdf_paths>>
    /\ UNCHANGED <<env, cpc, input_docx, output_pdf, cret, d2p, ncalls>>
    /\ UNCHANGED <<textVars, extractVars, frameVars, docxVars>>

(***************************************************************************)
(* Claims about the extractor and the context builder.                     *)
(***************************************************************************)

\* the spellings the scan meets, in scan order: the main part first, then the
\* header and footer parts as the archive lists them
ScanOrder(t) ==
    LET hf    == SelectSeq(t.names, LAMBDA nm : nm \in HeaderParts \cup FooterParts)
        parts == IF MainPart \in Range(t.names) THEN <<MainPart>> \o hf ELSE hf
        found == Flatten([i \in DOMAIN parts |-> t.text[parts[i]]])
    IN  [i \in DOMAIN found |-> Strip(found[i])]

FirstSpelling(t, n) ==
    LET order == ScanOrder(t)
        at    == {i \in DOMAIN order : normalize_key(order[i]) = n}
    IN  order[SetMin(at)]

\* C8: extract_placeholders_full never raises: bytes that do not open as a ZIP
\* archive, or a part that cannot be read, are skipped and a result is returned.
C8_ExtractNeverRaises == epc # "raised"

\* C9: the keys of the mapping are the set of canonical labels; every stored
\* spelling normalizes to its key; and the stored spelling is the first one
\* with that canonical form in scan order (main part first, then the header
\* and footer parts, each in document order).
C9_FirstSpellingKept ==
    epc = "extracted" =>
        /\ DOMAIN norm_to_original = placeholders_norm
        /\ \A n \in placeholders_norm :
              /\ normalize_key(norm_to_original[n]) = n
              /\ \E i \in DOMAIN ScanOrder(tpl) :
                    normalize_key(ScanOrder(tpl)[i]) = n
              /\ norm_to_original[n] = FirstSpelling(tpl, n)

\* a header part listed before the main part spells the label differently,
\* and the main part's spelling is the one kept
C9_Witness ==
    /\ epc = "extracted"
    /\ tpl.names = <<"word/header1.xml", MainPart>>
    /\ tpl.text["word/header1.xml"] = << <<"A">> >>
    /\ tpl.text[MainPart] = << <<"a">> >>
    /\ norm_to_original = (<<"A">> :> <<"a">>)

\* the non-empty values of the row's columns whose canonical form is p
RowValues(r, p) ==
    {r[i].val : i \in {j \in DOMAIN r :
                          /\ normalize_key(r[j].name) = p
                          /\ r[j].val \notin {<<>>, NaN}}}

\* C2: each canonical placeholder resolves to the non-empty value of the
\* row's column with that canonical form, else to its default, else to the
\* empty string; a default never replaces a non-empty row value, also when
\* several headers share a canonical form.
C2_DefaultOnlyWhenEmpty ==
    epc = "built" =>
        \A p \in placeholders_norm :
            LET v == context[OriginalOf(norm_to_original, p)]
            IN  IF RowValues(row, p) # {}
                THEN v \in RowValues(row, p)
                ELSE IF p \in DOMAIN defaults_input
                     THEN v = defaults_input[p]
                     ELSE v = <<>>

\* C3: the context holds a key for every spelling the extractor matched in
\* the template.
C3_EverySpellingIsKey ==
    epc = "built" =>
        \A i \in DOMAIN ScanOrder(tpl) : ScanOrder(tpl)[i] \in DOMAIN context

(***************************************************************************)
(* Claims about the DOCX generation loop.                                  *)
(***************************************************************************)

\* the value of row k (1-based) in the column chosen to name the files
NamingValue(k) ==
    df.rows[k][CHOOSE j \in DOMAIN df.columns :
                   df.columns[j] = nombre_col_original]

\* C1: for a data set of N rows the loop writes exactly N entries into the
\* archive, and their names are pairwise distinct.
C1_EntriesCompleteAndDistinct ==
    dpc = "done" =>
        /\ Len(memory_zip) = Len(df.rows)
        /\ \A j, k \in DOMAIN memory_zip :
               j # k => memory_zip[j].name # memory_zip[k].name

\* C6: the entry of the row at 1-based position k is named
\* "<sanitize_filename(v)> - Certificado.docx" when the row's value v in the
\* naming column is non-empty and "documento_<k> - Certificado.docx" when it
\* is empty; an empty naming value never aborts generation.
C6_EntryNames ==
    /\ \A k \in DOMAIN memory_zip :
           memory_zip[k].name =
               IF NamingValue(k) # <<>>
               THEN sanitize_filename(NamingValue(k)) \o DocxSuffix
               ELSE DocumentoPrefix \o Decimal(k) \o DocxSuffix
    /\ dpc = "raised" => NamingValue(di + 1) # <<>>

(***************************************************************************)
(* Claims about the PDF conversion.                                        *)
(***************************************************************************)

\* the paths of the documents whose conversion returned true, in row order
ConvertedPaths ==
    LET at == SelectSeq([k \in DOMAIN oks |-> k], LAMBDA k : oks[k])
    IN  [j \in DOMAIN at |-> docx_paths[at[j]].base \o PdfSuffix]

\* C7: when the conversion succeeds for no row the action ends with the
\* error message and offers no archive; otherwise the archive offered holds
\* one entry for each row whose conversion succeeded and none for a row
\* whose conversion failed.  A failed conversion never raises out of the
\* action: the action ends once the conversion loop has begun.
C7_PdfArchiveOfConverted ==
    /\ ppc = "done" =>
          /\ Len(oks) = Len(df.rows)
          /\ IF \A k \in DOMAIN oks : ~oks[k]
             THEN shown = "error" /\ pdf_zip = <<>>
             ELSE /\ shown = "download"
                  /\ [k \in DOMAIN pdf_zip |-> pdf_zip[k].name] = ConvertedPaths
    /\ ppc = "raised" => oks = <<>> /\ cpc = "idle" /\ pdf_paths = <<>>

\* two rows were rendered; the conversion of the first returned false and
\* that of the second true, and the archive holds the second alone
C7_Witness ==
    /\ ppc = "done"
    /\ Len(oks) = 2
    /\ ~oks[1]
    /\ oks[2]
    /\ Len(pdf_zip) = 1
    /\ shown = "download"

\* C10 as stated: the OS-integrated converter is tried first; whenever that
\* attempt does not produce the PDF (it raised, or returned without creating
\* the file) the headless converter is tried if one is found; each converter
\* is invoked at most once; true is returned only if the PDF exists.
C10_FallbackWheneverNoPdf ==
    cpc = "returned" =>
        /\ ncalls.docx2pdf <= 1
        /\ ncalls.soffice <= 1
        /\ ncalls.soffice = 1 => d2p \in {"unavailable", "raised"}
        /\ (d2p # "created" /\ env.soffice) => ncalls.soffice = 1
        /\ cret => output_pdf \in DOMAIN files

\* C10 amended: the OS-integrated converter is tried first; the headless
\* converter is tried, if one is found, exactly when that attempt raised (the
\* import or the conversion); when the attempt returned, the result is
\* whether the PDF exists and the headless converter is not tried; each
\* converter is invoked at most once; true is returned only if the PDF exists.
C10_FallbackOnlyAfterRaise ==
    cpc = "returned" =>
        /\ ncalls.docx2pdf = (IF env.docx2pdf THEN 1 ELSE 0)
        /\ ncalls.soffice <= 1
        /\ ncalls.soffice = 1 <=> (d2p \in {"unavailable", "raised"} /\ env.soffice)
        /\ d2p \in {"created", "returned"} =>
              cret = (output_pdf \in DOMAIN files)
        /\ cret => output_pdf \in DOMAIN files

\* the OS-integrated converter returned without creating the file, an office
\* suite is installed, and the call returned false without trying it
C10_Witness ==
    /\ cpc = "returned"
    /\ d2p = "returned"
    /\ env.soffice
    /\ ncalls.soffice = 0
    /\ ~cret

(***************************************************************************)
(* Specifications.                                                         *)
(***************************************************************************)
TextIdle ==
    /\ tpc = "idle"
    /\ label = <<>>
    /\ fname = <<>>
    /\ nk1 = <<>>
    /\ nk2 = <<>>
    /\ sf = <<>>

ExtractIdle ==
    /\ epc = "idle"
    /\ tpl = [zip |-> FALSE, names |-> <<>>, unreadable |-> {},
              text |-> [q \in PartNames |-> <<>>]]
    /\ placeholders_norm = {}
    /\ norm_to_original = <<>>
    /\ ContextIdle

FrameIdle ==
    /\ df = [columns |-> <<>>, rows |-> <<>>]
    /\ nombre_col_original = <<>>

DocxIdle ==
    /\ dpc = "idle"
    /\ di = 0
    /\ memory_zip = <<>>

ConvIdle ==
    /\ env = [docx2pdf |-> FALSE, soffice |-> FALSE]
    /\ files = <<>>
    /\ cpc = "idle"
    /\ input_docx = <<>>
    /\ output_pdf = <<>>
    /\ cret = FALSE
    /\ d2p = "none"
    /\ ncalls = [docx2pdf |-> 0, soffice |-> 0]

PdfIdle ==
    /\ ppc = "idle"
    /\ pi = 0
    /\ docx_paths = <<>>
    /\ oks = <<>>
    /\ pdf_paths = <<>>
    /\ pdf_zip = <<>>
    /\ shown = "none"

InitText == TextInit /\ ExtractIdle /\ FrameIdle /\ DocxIdle /\ ConvIdle /\ PdfIdle

NextText == Normalize \/ Renormalize \/ Sanitize

SpecText == InitText /\ [][NextText]_vars

InitExtract == ExtractInit /\ TextIdle /\ FrameIdle /\ DocxIdle /\ ConvIdle /\ PdfIdle

NextExtract == Extract

SpecExtract == InitExtract /\ [][NextExtract]_vars

InitContext == ContextInit /\ TextIdle /\ FrameIdle /\ DocxIdle /\ ConvIdle /\ PdfIdle

NextContext == Extract \/ BuildContext

SpecContext == InitContext /\ [][NextContext]_vars

InitDocx == FrameInit /\ DocxInit /\ TextIdle /\ ConvIdle /\ PdfIdle

NextDocx == Extract \/ DocxButton \/ DocxRow \/ DocxFinish

SpecDocx == InitDocx /\ [][NextDocx]_vars

InitConv ==
    ConvInit /\ TextIdle /\ ExtractIdle /\ FrameIdle /\ DocxIdle /\ PdfIdle

NextConv ==
    \/ Docx2pdfUnavailable
    \/ Docx2pdfRaises
    \/ Docx2pdfReturns
    \/ SofficeMissing
    \/ SofficeRaises
    \/ SofficeRuns

SpecConv == InitConv /\ [][NextConv]_vars

InitPdf == PdfInit /\ TextIdle /\ DocxIdle

NextPdf ==
    \/ Extract
    \/ PdfButton
    \/ PdfRenderRow
    \/ PdfRenderDone
    \/ PdfConvertCall
    \/ Docx2pdfUnavailable
    \/ Docx2pdfRaises
    \/ Docx2pdfReturns
    \/ SofficeMissing
    \/ SofficeRaises
    \/ SofficeRuns
    \/ PdfConvertReturn
    \/ PdfFinish

SpecPdf == InitPdf /\ [][NextPdf]_vars

=============================================================================
